---- MODULE Spec2Model ----
(***************************************************************************)
(* Request-execution layer of async-anthropic (src/src/client.rs).         *)
(*                                                                         *)
(* Two operations are modelled:                                            *)
(*   - Client::get / Client::post: one request closure driven by backon's  *)
(*     Retry future (.retry(self.backoff).sleep(..).when(..).adjust(..)).  *)
(*   - Client::post_stream / stream(): a spawned pump task that reads a    *)
(*     reqwest_eventsource::EventSource and republishes results on an      *)
(*     unbounded tokio mpsc channel consumed as a Stream.                  *)
(*                                                                         *)
(* backon and reqwest_eventsource are external crates; the parts of them   *)
(* client.rs drives (Retry::poll, ExponentialBackoff::next,                *)
(* EventSource::poll_next, handle_error, ExponentialBackoff::retry) are    *)
(* modelled at the call sites in client.rs that invoke them.               *)
(* Durations are whole seconds.                                            *)
(*                                                                         *)
(* Client::with_backoff, and the message helpers of src/src/types.rs       *)
(* (CreateMessagesResponse::messages, From<S> for Message, Message::text), *)
(* are modelled as well.                                                   *)
(***************************************************************************)
EXTENDS Integers, Sequences, FiniteSets, TLC

VARIABLES
    op,           \* which entry point runs: "get", "post" or "post_stream"
                  \* ("builder": the client is being configured; "fn": one
                  \* function is applied to one input)
    backoff,      \* Client.backoff (ExponentialBuilder), read-only
    \* ---- Client::get / Client::post (backon Retry future) ----
    retryState,   \* "Idle" | "Polling" | "Sleeping" | "Done"
    boAttempts,   \* backon ExponentialBackoff.attempts
    boCurrent,    \* backon ExponentialBackoff.current_delay : Option<secs>
    attempts,     \* network attempts started by this call
    inflight,     \* network attempts started and not yet answered
    outcomes,     \* the classified outcome of every finished attempt, in order
    sleepDur,     \* Option<secs>: the sleep in progress
    returned,     \* the results handed to the caller of get/post, in order
    \* ---- stream() ----
    esState,      \* EventSource: "connecting" | "open" | "delay" | "closed"
    lastRetry,    \* EventSource.last_retry : Option<(usize, secs)>
    pumpPc,       \* pump task: "next" | "handle" | "done"
    ev,           \* the item event_source.next() yielded (when pumpPc = "handle")
    nEvents,      \* item-producing transport events yielded so far
    chan,         \* the unbounded channel's queue
    sent,         \* every item tx.send accepted, in order
    consumed,     \* every item the consumer pulled, in order
    rxAlive,      \* the consumer still holds the receiver stream
    txAlive,      \* the pump task still holds the sender
    ended,        \* the consumer has observed the end of the sequence
    closeCalls,   \* number of event_source.close() calls
    \* ---- another get/post call running on the same client ----
    peerAttempts, \* its backon ExponentialBackoff.attempts
    peerCurrent,  \* its ExponentialBackoff.current_delay : Option<secs>
    \* ---- functions applied to one input ----
    arg,          \* Option: the input [fn, x] a function is applied to
    result        \* Option: what the function returned

callVars == <<retryState, boAttempts, boCurrent, attempts, inflight, outcomes,
              sleepDur, returned>>
streamVars == <<esState, lastRetry, pumpPc, ev, nEvents, chan, sent, consumed,
                rxAlive, txAlive, ended, closeCalls>>
pureVars == <<arg, result>>
peerVars == <<peerAttempts, peerCurrent>>
vars == <<op, backoff, peerVars, pureVars, callVars, streamVars>>

----------------------------------------------------------------------------
(* Option<T> *)
None == <<>>
Some(v) == <<v>>
IsSome(o) == o # <<>>
Unwrap(o) == o[1]
\* Option::or
OptOr(a, b) == IF IsSome(a) THEN a ELSE b

Min(a, b) == IF a <= b THEN a ELSE b

----------------------------------------------------------------------------
(* Bounds of the model *)
MaxAttempts == 4
MaxEvents == 3

----------------------------------------------------------------------------
(* Backoff configuration: Client.backoff *)

\* Client::default(): min 15 s, factor 2, jitter, max 120 s; max_times is left
\* at ExponentialBuilder::default()'s Some(3).
Client_default ==
    [min_delay |-> 15, factor |-> 2, max_delay |-> 120,
     max_times |-> Some(3), jitter |-> TRUE]

\* Configurations a caller installs with Client::with_backoff / the builder.
with_backoff ==
    { [min_delay |-> 1, factor |-> 2, max_delay |-> 4,
       max_times |-> Some(2), jitter |-> FALSE],
      [min_delay |-> 1, factor |-> 2, max_delay |-> 4,
       max_times |-> None, jitter |-> FALSE],
      [min_delay |-> 1, factor |-> 2, max_delay |-> 4,
       max_times |-> Some(3), jitter |-> TRUE] }

Backoffs == {Client_default} \cup with_backoff

----------------------------------------------------------------------------
(* HTTP responses and handle_response *)

OK == 200
BAD_REQUEST == 400
UNAUTHORIZED == 401
TOO_MANY_REQUESTS == 429
overloaded_status == 529
INTERNAL_SERVER_ERROR == 500

Statuses == {OK, BAD_REQUEST, UNAUTHORIZED, TOO_MANY_REQUESTS,
             overloaded_status, INTERNAL_SERVER_ERROR}

Digits == <<"0", "1", "2", "3", "4", "5", "6", "7", "8", "9">>
DigitValue(c) == (CHOOSE i \in 1..10 : Digits[i] = c) - 1
IsDigit(c) == \E i \in 1..10 : Digits[i] = c

\* u64::MAX = 18446744073709551615, as decimal digits
U64_MAX_DIGITS ==
    <<"1", "8", "4", "4", "6", "7", "4", "4", "0", "7", "3", "7", "0", "9",
      "5", "5", "1", "6", "1", "5">>

RECURSIVE DigitsValue(_)
DigitsValue(s) ==
    IF s = <<>> THEN 0
    ELSE 10 * DigitsValue(SubSeq(s, 1, Len(s) - 1)) + DigitValue(s[Len(s)])

RECURSIVE StripZeros(_)
StripZeros(s) ==
    IF s # <<>> /\ s[1] = "0" THEN StripZeros(Tail(s)) ELSE s

\* a <= b for digit sequences of the same length
RECURSIVE DigitsLeq(_, _)
DigitsLeq(a, b) ==
    IF a = <<>> THEN TRUE
    ELSE IF DigitValue(a[1]) # DigitValue(b[1])
         THEN DigitValue(a[1]) < DigitValue(b[1])
         ELSE DigitsLeq(Tail(a), Tail(b))

\* the number written by the digits d does not overflow 64 bits
FitsU64(d) ==
    LET z == StripZeros(d)
    IN  \/ Len(z) < Len(U64_MAX_DIGITS)
        \/ Len(z) = Len(U64_MAX_DIGITS) /\ DigitsLeq(z, U64_MAX_DIGITS)

\* str::parse::<u64>().ok(): an optional leading "+", then one or more decimal
\* digits whose value fits 64 bits; anything else is None.
ParseU64(s) ==
    LET d == IF s # <<>> /\ s[1] = "+" THEN Tail(s) ELSE s
    IN  IF d # <<>> /\ (\A i \in 1..Len(d) : IsDigit(d[i])) /\ FitsU64(d)
        THEN Some(DigitsValue(d))
        ELSE None

\* Values of the Retry-After header: None when the header is absent, else the
\* header's text as a sequence of characters.
RetryAfterHeaders ==
    {None, Some(<<"0">>), Some(<<"5">>), Some(<<"s", "o", "o", "n">>)}

\* A header byte outside visible ASCII, written as one opaque character.
OpaqueBytes == {"0xFF"}

\* HeaderValue::to_str().ok(): None when a byte is not visible ASCII
to_str(h) ==
    IF \E i \in 1..Len(h) : h[i] \in OpaqueBytes THEN None ELSE Some(h)

\* (mutant) a header that is absent or unusable counts as zero seconds
HeaderRetryAfter_or_zero(resp) ==
    IF IsSome(resp.retry_after_header)
       /\ IsSome(to_str(Unwrap(resp.retry_after_header)))
       /\ IsSome(ParseU64(Unwrap(resp.retry_after_header)))
    THEN ParseU64(Unwrap(resp.retry_after_header))
    ELSE Some(0)

\* response.headers().get("Retry-After").and_then(to_str).and_then(parse::<u64>)
HeaderRetryAfter(resp) ==
    IF IsSome(resp.retry_after_header)
       /\ IsSome(to_str(Unwrap(resp.retry_after_header)))
    THEN ParseU64(Unwrap(to_str(Unwrap(resp.retry_after_header))))
    ELSE None

\* Bodies: "valid" decodes as the requested type, "malformed" is readable text
\* that does not decode, "unreadable" fails while the body is read.  The text
\* of a NetworkError names the reqwest error it wraps: "send", "body", "decode".
Bodies == {"valid", "malformed", "unreadable"}

Responses ==
    [status : Statuses, retry_after_header : RetryAfterHeaders, body : Bodies]

Outcome(kind, retry_after, text) ==
    [kind |-> kind, retry_after |-> retry_after, text |-> text]

\* response.text().await.map_err(AnthropicError::NetworkError)? followed by `then`
WithText(resp, then) ==
    IF resp.body = "unreadable" THEN Outcome("NetworkError", None, "body")
    ELSE then

\* (mutant) 529 is not recognised as a rate limit and falls to the last arm
handle_response_without_529(resp) ==
    CASE resp.status = OK ->
            IF resp.body = "valid" THEN Outcome("Ok", None, resp.body)
            ELSE Outcome("NetworkError", None, "decode")
      [] resp.status = BAD_REQUEST ->
            WithText(resp, Outcome("BadRequest", None, resp.body))
      [] resp.status = UNAUTHORIZED ->
            Outcome("Unauthorized", None, "")
      [] resp.status = TOO_MANY_REQUESTS ->
            WithText(resp, Outcome("RateLimit", HeaderRetryAfter(resp), ""))
      [] OTHER ->
            WithText(resp, Outcome("Unknown", None, resp.body))

handle_response(resp) ==
    CASE resp.status = OK ->
            IF resp.body = "valid" THEN Outcome("Ok", None, resp.body)
            ELSE Outcome("NetworkError", None, "decode")
      [] resp.status = BAD_REQUEST ->
            WithText(resp, Outcome("BadRequest", None, resp.body))
      [] resp.status = UNAUTHORIZED ->
            Outcome("Unauthorized", None, "")
      [] resp.status \in {TOO_MANY_REQUESTS, overloaded_status} ->
            WithText(resp, Outcome("RateLimit", HeaderRetryAfter(resp), ""))
      [] OTHER ->
            WithText(resp, Outcome("Unknown", None, resp.body))

\* request.send().await.map_err(AnthropicError::NetworkError)?
SendError == Outcome("NetworkError", None, "send")

----------------------------------------------------------------------------
(* Client::get / Client::post: the retried call *)

\* backon ExponentialBackoff::next(): None once `attempts` reached max_times,
\* else min_delay the first time and min(current * factor, max_delay) after,
\* plus, with jitter, a random amount in [0, delay).
BackoffExhausted(cfg, n) == IsSome(cfg.max_times) /\ n >= Unwrap(cfg.max_times)

\* (mutant) the delay keeps growing past max_delay
NextCurrent_uncapped(cfg, cur) ==
    IF cur = None THEN cfg.min_delay ELSE Unwrap(cur) * cfg.factor

NextCurrent(cfg, cur) ==
    IF cur = None THEN cfg.min_delay
    ELSE LET c == Unwrap(cur)
             m == IF c < cfg.max_delay THEN c * cfg.factor ELSE c
         IN  IF m > cfg.max_delay THEN cfg.max_delay ELSE m

Jitters(cfg, d) == IF cfg.jitter THEN 0 .. (d - 1) ELSE {0}

\* The set of values backoff.next() can return in this state.
BackoffNext(cfg, n, cur) ==
    IF BackoffExhausted(cfg, n) THEN {None}
    ELSE LET d == NextCurrent(cfg, cur) IN {Some(d + j) : j \in Jitters(cfg, d)}

\* (mutant) network errors are retried like rate limits
when_transient(err) == err.kind \in {"RateLimit", "NetworkError"}

\* (mutant) every error is retried
when_any_error(err) == err.kind # "Ok"

\* .when(|e| matches!(e, AnthropicError::RateLimit { .. }))
when(err) == err.kind = "RateLimit"

\* (mutant) the computed delay takes precedence over the server's: dur.or(..)
adjust_prefers_backoff(err, dur) ==
    IF err.kind = "RateLimit" THEN OptOr(dur, err.retry_after) ELSE dur

\* (mutant) a missing Retry-After is read as zero seconds: unwrap_or_default()
adjust_unwrap_or_default(err, dur) ==
    IF err.kind = "RateLimit"
    THEN Some(IF IsSome(err.retry_after) THEN Unwrap(err.retry_after) ELSE 0)
    ELSE dur

\* (mutant) the computed delay is dropped: the trailing .or(dur) is missing
adjust_header_only(err, dur) ==
    IF err.kind = "RateLimit" THEN err.retry_after ELSE dur

\* .adjust(|err, dur| match err { RateLimit { retry_after } =>
\*     retry_after.map(Duration::from_secs).or(dur), _ => dur })
adjust(err, dur) ==
    IF err.kind = "RateLimit" THEN OptOr(err.retry_after, dur) ELSE dur

\* (mutant) the next attempt starts without waiting for the sleep to finish
SendRequest_during_sleep ==
    /\ op \in {"get", "post"}
    /\ retryState \in {"Idle", "Sleeping"}
    /\ attempts < MaxAttempts
    /\ retryState' = "Polling"
    /\ attempts' = attempts + 1
    /\ inflight' = inflight + 1
    /\ UNCHANGED <<op, backoff, peerVars, pureVars, boAttempts, boCurrent, outcomes, sleepDur,
                   returned, streamVars>>

\* State::Idle: the request closure is called and the attempt starts.
SendRequest ==
    /\ op \in {"get", "post"}
    /\ retryState = "Idle"
    /\ attempts < MaxAttempts
    /\ retryState' = "Polling"
    /\ attempts' = attempts + 1
    /\ inflight' = inflight + 1
    /\ UNCHANGED <<op, backoff, peerVars, pureVars, boAttempts, boCurrent, outcomes, sleepDur,
                   returned, streamVars>>

\* State::Polling, the attempt's future is ready with `res`.
Finish(res) ==
    /\ inflight' = inflight - 1
    /\ outcomes' = Append(outcomes, res)
    /\ IF res.kind = "Ok" \/ ~when(res)
       THEN /\ retryState' = "Done"
            /\ returned' = Append(returned, res)
            /\ UNCHANGED <<boAttempts, boCurrent, sleepDur>>
       ELSE \E dur \in BackoffNext(backoff, boAttempts, boCurrent) :
            /\ IF BackoffExhausted(backoff, boAttempts)
               THEN UNCHANGED <<boAttempts, boCurrent>>
               ELSE /\ boAttempts' = boAttempts + 1
                    /\ boCurrent' = Some(NextCurrent(backoff, boCurrent))
            /\ LET adjusted == adjust(res, dur)
               IN  IF adjusted = None
                   THEN /\ retryState' = "Done"
                        /\ returned' = Append(returned, res)
                        /\ UNCHANGED sleepDur
                   ELSE /\ retryState' = "Sleeping"
                        /\ sleepDur' = adjusted
                        /\ UNCHANGED returned
    /\ UNCHANGED <<op, backoff, peerVars, pureVars, attempts, streamVars>>

\* The server answers; handle_response classifies the exchange.
Respond ==
    /\ retryState = "Polling"
    /\ \E resp \in Responses : Finish(handle_response(resp))

\* send() fails at transport level.
SendFails ==
    /\ retryState = "Polling"
    /\ Finish(SendError)

\* State::Sleeping: tokio::time::sleep(dur) elapsed.
Wake ==
    /\ retryState = "Sleeping"
    /\ retryState' = "Idle"
    /\ sleepDur' = None
    /\ UNCHANGED <<op, backoff, peerVars, pureVars, boAttempts, boCurrent, attempts, inflight,
                   outcomes, returned, streamVars>>

----------------------------------------------------------------------------
(* A second get/post call on the same client, reduced to its backoff *)

\* (mutant) the calls on one client share one backoff iterator: the other
\* call's backoff.next() advances the state this call reads
PeerRetries_shared_backoff ==
    /\ op \in {"get", "post", "post_stream"}
    /\ boAttempts < MaxAttempts
    /\ ~BackoffExhausted(backoff, boAttempts)
    /\ boAttempts' = boAttempts + 1
    /\ boCurrent' = Some(NextCurrent(backoff, boCurrent))
    /\ UNCHANGED <<op, backoff, peerVars, pureVars, retryState, attempts,
                   inflight, outcomes, sleepDur, returned, streamVars>>

\* The other call's .retry(self.backoff) built its own ExponentialBackoff from
\* a copy of the builder; a rate-limited attempt of that call takes the next
\* delay from it.
PeerRetries ==
    /\ op \in {"get", "post", "post_stream"}
    /\ peerAttempts < MaxAttempts
    /\ ~BackoffExhausted(backoff, peerAttempts)
    /\ peerAttempts' = peerAttempts + 1
    /\ peerCurrent' = Some(NextCurrent(backoff, peerCurrent))
    /\ UNCHANGED <<op, backoff, pureVars, callVars, streamVars>>

----------------------------------------------------------------------------
(* stream(): the reconnect policy *)

\* let backoff = ExponentialBackoff { start: backoff.min_delay(), factor,
\*     max_duration: backoff.max_delay(), max_retries: backoff.max_times() }
\* (mutant) the policy is built without a retry limit
StreamBackoff_unbounded(cfg) ==
    [start |-> cfg.min_delay, factor |-> cfg.factor,
     max_duration |-> Some(cfg.max_delay), max_retries |-> None]

StreamBackoff(cfg) ==
    [start |-> cfg.min_delay, factor |-> cfg.factor,
     max_duration |-> Some(cfg.max_delay), max_retries |-> cfg.max_times]

\* reqwest_eventsource ExponentialBackoff::retry(error, last_retry):
\* the first retry waits `start`; retry number n+1 waits min(last * factor,
\* max_duration) while n < max_retries; None after that.
ExponentialBackoff_retry(eb, last_retry) ==
    IF IsSome(last_retry)
    THEN LET retry_num == Unwrap(last_retry)[1]
             last_duration == Unwrap(last_retry)[2]
         IN  IF eb.max_retries = None \/ retry_num < Unwrap(eb.max_retries)
             THEN IF IsSome(eb.max_duration)
                  THEN Some(Min(last_duration * eb.factor, Unwrap(eb.max_duration)))
                  ELSE Some(last_duration * eb.factor)
             ELSE None
    ELSE Some(eb.start)

\* (mutant) the backoff's delay is preferred to the header's
RetryAfter_retry_backoff_first(eb, error, last_retry) ==
    OptOr(ExponentialBackoff_retry(eb, last_retry),
          IF error.type = "InvalidStatusCode"
          THEN HeaderRetryAfter(error.resp)
          ELSE None)

\* impl RetryPolicy for RetryAfter: fn retry
RetryAfter_retry(eb, error, last_retry) ==
    OptOr(IF error.type = "InvalidStatusCode"
          THEN HeaderRetryAfter(error.resp)
          ELSE None,
          ExponentialBackoff_retry(eb, last_retry))

----------------------------------------------------------------------------
(* stream(): the event source, as event_source.next() drives it *)

\* The caller-supplied allow-list (event_types) and the event names a server
\* can send.
event_types == {"message_start", "content_block_delta"}
EventNames == {"ping", "error", "message_start", "bogus"}
EventData == {"valid", "malformed"}

NoResponse == [status |-> 0, retry_after_header |-> None, body |-> "unreadable"]

Event(type, id, name, data, resp) ==
    [type |-> type, id |-> id, name |-> name, data |-> data, resp |-> resp]

\* EventSource::handle_error: ask the retry policy; schedule a reconnect after
\* the delay it returns, or close when it returns None.
HandleError(error) ==
    LET d == RetryAfter_retry(StreamBackoff(backoff), error, lastRetry)
    IN  IF IsSome(d)
        THEN /\ lastRetry' =
                  Some(<<IF IsSome(lastRetry) THEN Unwrap(lastRetry)[1] + 1 ELSE 1,
                         Unwrap(d)>>)
             /\ esState' = "delay"
        ELSE /\ esState' = "closed"
             /\ UNCHANGED lastRetry

\* event_source.next().await returns Some(e)
Yield(e) ==
    /\ ev' = Some(e)
    /\ pumpPc' = "handle"
    /\ nEvents' = IF e.id = 0 THEN nEvents ELSE nEvents + 1
    /\ UNCHANGED <<op, backoff, peerVars, pureVars, callVars, chan, sent, consumed, rxAlive,
                   txAlive, ended, closeCalls>>

Polled == op = "post_stream" /\ pumpPc = "next"

\* The connection is established with a valid event-stream response.
ESOpen ==
    /\ Polled /\ esState = "connecting"
    /\ esState' = "open"
    /\ lastRetry' = None
    /\ Yield(Event("Open", 0, "", "", NoResponse))

\* The response has a status other than 200: the event source closes itself.
ESInvalidStatusCode ==
    /\ Polled /\ esState = "connecting" /\ nEvents < MaxEvents
    /\ \E resp \in Responses :
         /\ resp.status # OK
         /\ esState' = "closed"
         /\ UNCHANGED lastRetry
         /\ Yield(Event("InvalidStatusCode", nEvents + 1, "", "", resp))

\* The response is 200 but not text/event-stream: the event source closes itself.
ESInvalidContentType ==
    /\ Polled /\ esState = "connecting" /\ nEvents < MaxEvents
    /\ \E resp \in Responses :
         /\ resp.status = OK
         /\ esState' = "closed"
         /\ UNCHANGED lastRetry
         /\ Yield(Event("InvalidContentType", nEvents + 1, "", "", resp))

\* Sending the request, or reading the open stream, fails (Transport, Utf8,
\* Parser): the retry policy decides on a reconnect.
ESTransportError ==
    /\ Polled /\ esState \in {"connecting", "open"} /\ nEvents < MaxEvents
    /\ LET e == Event("Transport", nEvents + 1, "", "", NoResponse)
       IN  HandleError(e) /\ Yield(e)

\* A message event arrives on the open stream.
ESMessage ==
    /\ Polled /\ esState = "open"
    /\ \E name \in EventNames, data \in EventData :
         /\ name = "ping" \/ nEvents < MaxEvents
         /\ UNCHANGED <<esState, lastRetry>>
         /\ Yield(Event("Message", IF name = "ping" THEN 0 ELSE nEvents + 1,
                        name, data, NoResponse))

\* The server ends the stream.
ESStreamEnded ==
    /\ Polled /\ esState = "open"
    /\ LET e == Event("StreamEnded", 0, "", "", NoResponse)
       IN  HandleError(e) /\ Yield(e)

\* The reconnect delay elapsed: the request is sent again.
ESDelayElapsed ==
    /\ Polled /\ esState = "delay"
    /\ esState' = "connecting"
    /\ UNCHANGED <<op, backoff, peerVars, pureVars, callVars, lastRetry, pumpPc, ev, nEvents, chan,
                   sent, consumed, rxAlive, txAlive, ended, closeCalls>>

----------------------------------------------------------------------------
(* stream(): the spawned pump task *)

Item(id, res) ==
    [id |-> id, kind |-> res.kind, retry_after |-> res.retry_after,
     text |-> res.text]

IsErr(item) == item.kind # "Ok"

\* (mutant) a decode failure of an allow-listed event falls to the last arm
MessageResult_decode_failure_unknown(e) ==
    IF e.name = "error"
    THEN IF e.data = "valid"
         THEN Outcome("StreamError", None, "decoded")
         ELSE Outcome("Deserialization", None, "")
    ELSE IF e.name \in event_types /\ e.data = "valid"
         THEN Outcome("Ok", None, e.data)
         ELSE Outcome("StreamError", None, "unknown_event_type")

\* (mutant) the allow-list is not consulted: every other name is decoded
MessageResult_without_allow_list(e) ==
    IF e.name = "error"
    THEN IF e.data = "valid"
         THEN Outcome("StreamError", None, "decoded")
         ELSE Outcome("Deserialization", None, "")
    ELSE IF e.data = "valid"
         THEN Outcome("Ok", None, e.data)
         ELSE Outcome("Deserialization", None, "")

\* The result built for a message event that is not a ping.
MessageResult(e) ==
    IF e.name = "error"
    THEN IF e.data = "valid"
         THEN Outcome("StreamError", None, "decoded")
         ELSE Outcome("Deserialization", None, "")
    ELSE IF e.name \in event_types
         THEN IF e.data = "valid"
              THEN Outcome("Ok", None, e.data)
              ELSE Outcome("Deserialization", None, "")
         ELSE Outcome("StreamError", None, "unknown_event_type")

\* (mutant) a send puts the item at the front of the queue
Enqueue_front(q, item) == <<item>> \o q

\* The unbounded channel: send appends, the receiver takes from the front.
Enqueue(q, item) == Append(q, item)
Dequeue(q) == Tail(q)
Front(q) == Head(q)

\* (mutant) the loop is left without event_source.close()
Break_without_close ==
    /\ pumpPc' = "done"
    /\ txAlive' = FALSE
    /\ UNCHANGED <<esState, closeCalls>>

\* break; event_source.close(); the task ends and drops tx.
Break ==
    /\ pumpPc' = "done"
    /\ esState' = "closed"
    /\ closeCalls' = closeCalls + 1
    /\ txAlive' = FALSE

Continue ==
    /\ pumpPc' = "next"
    /\ UNCHANGED <<esState, closeCalls, txAlive>>

\* (mutant) the message branch breaks only when the send failed
CancelOnMessage_send_only(sendFailed, item) == sendFailed

\* (mutant) the result of tx.send is ignored in the transport error branches
CancelOnTransport_never(sendFailed, item) == FALSE

\* message branch: break when the send failed or the item is an error
CancelOnMessage(sendFailed, item) == sendFailed \/ IsErr(item)
\* transport error branches: break only when the send failed
CancelOnTransport(sendFailed, item) == sendFailed

\* tx.send(item): fails exactly when the receiver is gone.
Send(item, cancel) ==
    /\ IF rxAlive
       THEN /\ chan' = Enqueue(chan, item)
            /\ sent' = Append(sent, item)
       ELSE UNCHANGED <<chan, sent>>
    /\ IF cancel THEN Break ELSE Continue

Handling(type) == pumpPc = "handle" /\ Unwrap(ev).type = type

PumpFrame == <<op, backoff, peerVars, pureVars, callVars, lastRetry, nEvents, consumed, rxAlive,
               ended>>

\* (mutant) the ping test is missing: a ping reaches the unknown-event arm
PumpSkip_without_ping_test ==
    /\ \/ Handling("Open")
       \/ Handling("Message") /\ Unwrap(ev).name = "ping"
    /\ ev' = None
    /\ IF Unwrap(ev).type = "Open"
       THEN Continue /\ UNCHANGED <<chan, sent>>
       ELSE Send(Item(Unwrap(ev).id,
                      Outcome("StreamError", None, "unknown_event_type")), TRUE)
    /\ UNCHANGED PumpFrame

\* Event::Open => continue; event == "ping" => continue
PumpSkip ==
    /\ \/ Handling("Open")
       \/ Handling("Message") /\ Unwrap(ev).name = "ping"
    /\ ev' = None
    /\ Continue
    /\ UNCHANGED <<PumpFrame, chan, sent>>

\* Event::Message with any other name
PumpMessage ==
    /\ Handling("Message") /\ Unwrap(ev).name # "ping"
    /\ LET item == Item(Unwrap(ev).id, MessageResult(Unwrap(ev)))
       IN  Send(item, CancelOnMessage(~rxAlive, item))
    /\ ev' = None
    /\ UNCHANGED PumpFrame

\* (mutant) StreamEnded has no arm of its own and is reported as an sse_error
PumpStreamEnded_as_sse_error ==
    /\ Handling("StreamEnded")
    /\ LET item == Item(Unwrap(ev).id, Outcome("StreamError", None, "sse_error"))
       IN  Send(item, CancelOnTransport(~rxAlive, item))
    /\ ev' = None
    /\ UNCHANGED PumpFrame

\* Err(StreamEnded) => break
PumpStreamEnded ==
    /\ Handling("StreamEnded")
    /\ ev' = None
    /\ Break
    /\ UNCHANGED <<PumpFrame, chan, sent>>

\* Err(InvalidContentType(_, response) | InvalidStatusCode(_, response))
PumpInvalidResponse ==
    /\ \/ Handling("InvalidContentType")
       \/ Handling("InvalidStatusCode")
    /\ LET item == Item(Unwrap(ev).id, handle_response(Unwrap(ev).resp))
       IN  Send(item, CancelOnTransport(~rxAlive, item))
    /\ ev' = None
    /\ UNCHANGED PumpFrame

\* Err(e) => send the sse_error stream error
PumpSseError ==
    /\ Handling("Transport")
    /\ LET item == Item(Unwrap(ev).id, Outcome("StreamError", None, "sse_error"))
       IN  Send(item, CancelOnTransport(~rxAlive, item))
    /\ ev' = None
    /\ UNCHANGED PumpFrame

\* event_source.next() returns None on a closed event source: the loop ends.
PumpExhausted ==
    /\ Polled /\ esState = "closed"
    /\ Break
    /\ UNCHANGED <<PumpFrame, ev, chan, sent>>

----------------------------------------------------------------------------
(* stream(): the consumer of the returned UnboundedReceiverStream *)

ConsumerFrame == <<op, backoff, peerVars, pureVars, callVars, esState, lastRetry, pumpPc, ev,
                   nEvents, sent, txAlive, closeCalls>>

\* poll_next yields the oldest queued item
Pull ==
    /\ op = "post_stream" /\ rxAlive /\ chan # <<>>
    /\ consumed' = Append(consumed, Front(chan))
    /\ chan' = Dequeue(chan)
    /\ UNCHANGED <<ConsumerFrame, rxAlive, ended>>

\* (mutant) the end is reported as soon as the sender is gone, queued items or not
ObserveEnd_before_drain ==
    /\ op = "post_stream" /\ rxAlive /\ ~txAlive /\ ~ended
    /\ ended' = TRUE
    /\ UNCHANGED <<ConsumerFrame, chan, consumed, rxAlive>>

\* poll_next yields None: the queue is empty and the sender is gone
ObserveEnd ==
    /\ op = "post_stream" /\ rxAlive /\ chan = <<>> /\ ~txAlive /\ ~ended
    /\ ended' = TRUE
    /\ UNCHANGED <<ConsumerFrame, chan, consumed, rxAlive>>

\* the consumer drops the stream; queued items are discarded
DropStream ==
    /\ op = "post_stream" /\ rxAlive
    /\ rxAlive' = FALSE
    /\ chan' = <<>>
    /\ UNCHANGED <<ConsumerFrame, consumed, ended>>

----------------------------------------------------------------------------
InitCall ==
    /\ retryState = "Idle"
    /\ boAttempts = 0
    /\ boCurrent = None
    /\ attempts = 0
    /\ inflight = 0
    /\ outcomes = <<>>
    /\ sleepDur = None
    /\ returned = <<>>

InitPeer ==
    /\ peerAttempts = 0
    /\ peerCurrent = None

InitStream ==
    /\ esState = "connecting"
    /\ lastRetry = None
    /\ pumpPc = "next"
    /\ ev = None
    /\ nEvents = 0
    /\ chan = <<>>
    /\ sent = <<>>
    /\ consumed = <<>>
    /\ rxAlive = TRUE
    /\ txAlive = TRUE
    /\ ended = FALSE
    /\ closeCalls = 0

Init ==
    /\ op \in {"get", "post", "post_stream"}
    /\ backoff \in Backoffs
    /\ arg = None
    /\ result = None
    /\ InitCall
    /\ InitPeer
    /\ InitStream

Next ==
    \/ SendRequest
    \/ Respond
    \/ SendFails
    \/ Wake
    \/ PeerRetries
    \/ ESOpen
    \/ ESInvalidStatusCode
    \/ ESInvalidContentType
    \/ ESTransportError
    \/ ESMessage
    \/ ESStreamEnded
    \/ ESDelayElapsed
    \/ PumpSkip
    \/ PumpMessage
    \/ PumpStreamEnded
    \/ PumpInvalidResponse
    \/ PumpSseError
    \/ PumpExhausted
    \/ Pull
    \/ ObserveEnd
    \/ DropStream

Spec == Init /\ [][Next]_vars

----------------------------------------------------------------------------
(* Configuring the client before its first call *)

\* Backoff builders a caller can also hand over: min_delay = 0, and a factor
\* below 1 (durations and factors are whole numbers here, so the factor is 0).
InvalidBackoffs ==
    { [min_delay |-> 0, factor |-> 2, max_delay |-> 4,
       max_times |-> Some(2), jitter |-> FALSE],
      [min_delay |-> 1, factor |-> 0, max_delay |-> 4,
       max_times |-> Some(2), jitter |-> FALSE] }

CallerBackoffs == with_backoff \cup InvalidBackoffs

ConfigInit ==
    /\ op = "builder"
    /\ backoff = Client_default
    /\ arg = None
    /\ result = None
    /\ InitCall
    /\ InitPeer
    /\ InitStream

\* pub fn with_backoff(mut self, backoff) -> Self { self.backoff = backoff; self }
Client_with_backoff ==
    /\ op = "builder"
    /\ \E cfg \in CallerBackoffs : backoff' = cfg
    /\ UNCHANGED <<op, peerVars, pureVars, callVars, streamVars>>

\* The caller invokes get, post or post_stream on the configured client.
CallStarts ==
    /\ op = "builder"
    /\ op' \in {"get", "post", "post_stream"}
    /\ UNCHANGED <<backoff, peerVars, pureVars, callVars, streamVars>>

ConfigNext ==
    \/ Client_with_backoff
    \/ CallStarts
    \/ Next

ConfigSpec == ConfigInit /\ [][ConfigNext]_vars

----------------------------------------------------------------------------
(* types.rs: messages and their content *)

MaxContent == 3

\* enum MessageRole { User (default), Assistant }
MessageRole == {"User", "Assistant"}

\* MessageContent values: a block's variant, its payload and, for Text, its
\* cache_control.
Text(text, cache_control) ==
    [kind |-> "Text", text |-> text, cache_control |-> cache_control]
MessageContent ==
    { Text("a", None), Text("b", Some("ephemeral")),
      [kind |-> "ToolUse", text |-> "t", cache_control |-> None],
      [kind |-> "Thinking", text |-> "h", cache_control |-> None] }

\* Vec<MessageContent> of at most MaxContent blocks
ContentLists == UNION {[1..n -> MessageContent] : n \in 0..MaxContent}

\* impl From<MessageContent> for MessageContentList
MessageContentList_from(content) == <<content>>

Message(role, content) == [role |-> role, content |-> content]

\* (mutant) the role is left at MessageRole's default
CreateMessagesResponse_messages_default_role(content) ==
    [i \in 1..Len(content) |->
        Message("User", MessageContentList_from(content[i]))]

\* CreateMessagesResponse::messages: self.content.iter().map(..).collect()
CreateMessagesResponse_messages(content) ==
    [i \in 1..Len(content) |->
        Message("Assistant", MessageContentList_from(content[i]))]

\* Strings a caller converts into a message
Strings == {"", "a", "Hello world!"}

\* impl<S: AsRef<str>> From<S> for MessageContent
MessageContent_from(s) == Text(s, None)

\* impl<S: AsRef<str>> From<S> for MessageContentList
MessageContentList_from_str(s) == <<MessageContent_from(s)>>

\* impl<S: AsRef<str>> From<S> for Message:
\* MessageBuilder::default().role(User).content(s.as_ref().to_string()).build()
Message_from(s) == Message("User", MessageContentList_from_str(s))

\* content.iter().filter_map(|c| match c { Text(t) => Some(t.text), _ => None })
RECURSIVE FilterMapText(_)
FilterMapText(content) ==
    IF content = <<>> THEN <<>>
    ELSE LET c == Head(content)
             rest == FilterMapText(Tail(content))
         IN  IF c.kind = "Text" THEN <<c.text>> \o rest ELSE rest

\* (mutant) the last text content is returned
Message_text_last(m) ==
    LET texts == FilterMapText(m.content)
    IN  IF texts = <<>> THEN None ELSE Some(texts[Len(texts)])

\* Message::text: .filter_map(..).next()
Message_text(m) ==
    LET texts == FilterMapText(m.content)
    IN  IF texts = <<>> THEN None ELSE Some(Head(texts))

----------------------------------------------------------------------------
(* The requests get, post and post_stream build *)

\* Client.beta: not configured, or a beta value
Betas == {None, Some("tools-2024-04-04")}

\* A request's header list: (name, value) entries in the order they are sent.
RECURSIVE Remove(_, _)
Remove(h, name) ==
    IF h = <<>> THEN <<>>
    ELSE IF Head(h)[1] = name THEN Remove(Tail(h), name)
         ELSE <<Head(h)>> \o Remove(Tail(h), name)

\* HeaderMap::insert: the entry replaces the entries of that name
HeaderMap_insert(h, name, value) == Append(Remove(h, name), <<name, value>>)
\* HeaderMap::append: the entry is added to the entries of that name
HeaderMap_append(h, name, value) == Append(h, <<name, value>>)

\* fn headers(&self)
Client_headers(beta) ==
    LET h1 == HeaderMap_insert(<<>>, "x-api-key", "api_key")
        h2 == HeaderMap_insert(h1, "anthropic-version", "2023-06-01")
    IN  IF IsSome(beta)
        THEN HeaderMap_insert(h2, "anthropic-beta", Unwrap(beta))
        ELSE h2

\* RequestBuilder::headers(map): every name of the map replaces the request's
\* entries of that name (the map built by headers() holds each name once).
RECURSIVE RequestBuilder_headers(_, _)
RequestBuilder_headers(req, map) ==
    IF map = <<>> THEN req
    ELSE RequestBuilder_headers(HeaderMap_insert(req, Head(map)[1], Head(map)[2]),
                                Tail(map))

\* RequestBuilder::header(name, value): the entry is appended
RequestBuilder_header(req, name, value) == HeaderMap_append(req, name, value)

\* RequestBuilder::json(body): sets content-type unless the request has one
RequestBuilder_json(req) ==
    IF \E i \in 1..Len(req) : req[i][1] = "content-type" THEN req
    ELSE HeaderMap_insert(req, "content-type", "application/json")

\* get: .get(url).headers(self.headers())
Client_get(beta) == RequestBuilder_headers(<<>>, Client_headers(beta))

\* post: .post(url).headers(self.headers()).json(&request), then
\* if let Some(beta_value) = &self.beta { request.header("anthropic-beta", ..) }
Client_post(beta) ==
    LET request == RequestBuilder_json(
                       RequestBuilder_headers(<<>>, Client_headers(beta)))
    IN  IF IsSome(beta)
        THEN RequestBuilder_header(request, "anthropic-beta", Unwrap(beta))
        ELSE request

\* post_stream: .post(url).headers(self.headers()).json(&request).eventsource()
\* (the event source adds Accept: text/event-stream)
Client_post_stream(beta) ==
    RequestBuilder_header(
        RequestBuilder_json(RequestBuilder_headers(<<>>, Client_headers(beta))),
        "accept", "text/event-stream")

----------------------------------------------------------------------------
(* handle_response and RetryAfter::retry applied to one input *)

\* Retry-After values beyond those the calls above draw: a sign, leading
\* zeros, surrounding text, a negative number, a fraction, the empty value,
\* a non-ASCII byte, and u64::MAX + 1.
MoreRetryAfterHeaders ==
    { Some(<<"+", "7">>), Some(<<"0", "0", "7">>), Some(<<"1", "2", "0">>),
      Some(<<" ", "5">>), Some(<<"5", "s">>), Some(<<"-", "1">>),
      Some(<<"1", ".", "5">>), Some(<<>>), Some(<<"5", "0xFF">>),
      Some(SubSeq(U64_MAX_DIGITS, 1, Len(U64_MAX_DIGITS) - 1) \o <<"6">>) }

AllResponses ==
    [status : Statuses,
     retry_after_header : RetryAfterHeaders \cup MoreRetryAfterHeaders,
     body : Bodies]

\* reqwest_eventsource::Error values the retry policy is asked about
RetryErrors ==
    {Event("Transport", 0, "", "", NoResponse),
     Event("StreamEnded", 0, "", "", NoResponse)}
    \cup {Event("InvalidStatusCode", 0, "", "", r) :
            r \in {x \in AllResponses :
                     x.status \in {TOO_MANY_REQUESTS, overloaded_status}
                     /\ x.body = "valid"}}

\* last_retry: None, or (retry number, the delay chosen for it)
LastRetries == {None} \cup {Some(<<n, d>>) : n \in 1..3, d \in {1, 4, 15, 120}}

\* One application: the function's name and its arguments (the arguments the
\* function does not take hold NoResponse, NoError, None).
NoError == Event("", 0, "", "", NoResponse)
Apply(fn, resp, error, last_retry) ==
    Some([fn |-> fn, resp |-> resp, error |-> error, last_retry |-> last_retry,
          role |-> "", content |-> <<>>, s |-> "", beta |-> None])

\* One application of a types.rs function: its name and its arguments.
ApplyTypes(fn, role, content, s) ==
    Some([fn |-> fn, resp |-> NoResponse, error |-> NoError, last_retry |-> None,
          role |-> role, content |-> content, s |-> s, beta |-> None])

\* One request built by a client: the method's name and the client's beta.
ApplyRequest(fn, beta) ==
    Some([fn |-> fn, resp |-> NoResponse, error |-> NoError, last_retry |-> None,
          role |-> "", content |-> <<>>, s |-> "", beta |-> beta])

PureInputs ==
    {Apply("handle_response", r, NoError, None) : r \in AllResponses}
    \cup {ApplyTypes("messages", "", c, "") : c \in ContentLists}
    \cup {ApplyTypes("from", "", <<>>, s) : s \in Strings}
    \cup {ApplyRequest(m, b) : m \in {"get", "post", "post_stream"}, b \in Betas}
    \cup {ApplyTypes("text", r, c, "") : r \in MessageRole, c \in ContentLists}
    \cup {Apply("retry", NoResponse, e, l) : e \in RetryErrors, l \in LastRetries}

PureInit ==
    /\ op = "fn"
    /\ backoff \in Backoffs
    /\ arg \in PureInputs
    /\ result = None
    /\ InitCall
    /\ InitPeer
    /\ InitStream

\* handle_response(response).await
Classify ==
    /\ op = "fn" /\ result = None /\ Unwrap(arg).fn = "handle_response"
    /\ result' = Some(handle_response(Unwrap(arg).resp))
    /\ UNCHANGED <<op, backoff, peerVars, arg, callVars, streamVars>>

\* RetryAfter { backoff }.retry(error, last_retry)
PolicyRetry ==
    /\ op = "fn" /\ result = None /\ Unwrap(arg).fn = "retry"
    /\ result' = Some(RetryAfter_retry(StreamBackoff(backoff), Unwrap(arg).error,
                                       Unwrap(arg).last_retry))
    /\ UNCHANGED <<op, backoff, peerVars, arg, callVars, streamVars>>

\* response.messages()
Messages ==
    /\ op = "fn" /\ result = None /\ Unwrap(arg).fn = "messages"
    /\ result' = Some(CreateMessagesResponse_messages(Unwrap(arg).content))
    /\ UNCHANGED <<op, backoff, peerVars, arg, callVars, streamVars>>

\* let message: Message = s.into()
IntoMessage ==
    /\ op = "fn" /\ result = None /\ Unwrap(arg).fn = "from"
    /\ result' = Some(Message_from(Unwrap(arg).s))
    /\ UNCHANGED <<op, backoff, peerVars, arg, callVars, streamVars>>

\* message.text()
MessageText ==
    /\ op = "fn" /\ result = None /\ Unwrap(arg).fn = "text"
    /\ result' = Some(Message_text(Message(Unwrap(arg).role, Unwrap(arg).content)))
    /\ UNCHANGED <<op, backoff, peerVars, arg, callVars, streamVars>>

\* The request closure of get / post, or post_stream, builds its request.
BuildRequest ==
    /\ op = "fn" /\ result = None
    /\ Unwrap(arg).fn \in {"get", "post", "post_stream"}
    /\ result' = Some(CASE Unwrap(arg).fn = "get" -> Client_get(Unwrap(arg).beta)
                        [] Unwrap(arg).fn = "post" -> Client_post(Unwrap(arg).beta)
                        [] OTHER -> Client_post_stream(Unwrap(arg).beta))
    /\ UNCHANGED <<op, backoff, peerVars, arg, callVars, streamVars>>

PureNext ==
    \/ BuildRequest
    \/ Classify
    \/ PolicyRetry
    \/ Messages
    \/ IntoMessage
    \/ MessageText

PureSpec == PureInit /\ [][PureNext]_vars

PumpStep ==
    \/ PumpSkip \/ PumpMessage \/ PumpStreamEnded \/ PumpInvalidResponse
    \/ PumpSseError \/ PumpExhausted

Transport ==
    \/ ESOpen \/ ESInvalidStatusCode \/ ESInvalidContentType \/ ESTransportError
    \/ ESMessage \/ ESStreamEnded \/ ESDelayElapsed

\* The runtime runs a ready pump task, and the transport keeps answering.
FairSpec == Spec /\ WF_vars(PumpStep) /\ WF_vars(Transport)

\* A consumer that keeps polling the stream it holds.
ConsumerSpec == Spec /\ WF_vars(Pull) /\ WF_vars(ObserveEnd)

----------------------------------------------------------------------------
(* Properties *)

IsCall == op \in {"get", "post"}
LastOutcome == outcomes[Len(outcomes)]
PolicyDelay(cfg, k) ==
    LET RECURSIVE P(_)
        P(i) == IF i = 0 THEN cfg.min_delay ELSE Min(P(i - 1) * cfg.factor, cfg.max_delay)
    IN  P(k)

\* C1: with max_times = Some(n) configured, one get/post call makes at most
\* n retries, that is at most n + 1 network attempts, whatever the server
\* answers (also when every answer is 429/529 with a Retry-After header).
C1_AttemptsBounded ==
    (IsCall /\ IsSome(backoff.max_times))
        => attempts <= Unwrap(backoff.max_times) + 1

\* C2: an attempt outcome other than a rate-limit error is the last outcome of
\* the call: the call is over, that outcome is what the caller got, and no
\* attempt was started after it (a first answer of 401 means one attempt).
C2_NonRateLimitEndsCall ==
    \A i \in 1..Len(outcomes) :
        outcomes[i].kind # "RateLimit"
            => /\ i = Len(outcomes)
               /\ attempts = i
               /\ inflight = 0
               /\ retryState = "Done"
               /\ returned = <<outcomes[i]>>

C2_Witness ==
    /\ IsCall /\ retryState = "Done" /\ attempts = 1
    /\ returned # <<>> /\ returned[1].kind = "Unauthorized"

\* C3: while the call sleeps after a rate-limit answer that carried
\* Retry-After: s, the sleep is exactly s seconds.
C3_SleepIsRetryAfter ==
    (retryState = "Sleeping" /\ IsSome(LastOutcome.retry_after))
        => sleepDur = Some(Unwrap(LastOutcome.retry_after))

C3_Witness ==
    /\ retryState = "Sleeping"
    /\ LastOutcome.retry_after = Some(5)
    /\ backoff.max_delay < 5
    /\ sleepDur = Some(5)

\* C4: while the call sleeps after a rate-limit answer without a usable
\* Retry-After, the sleep is the policy's delay for retry index k (k retries
\* were made before): min(min_delay * factor^k, max_delay), plus, with jitter,
\* an amount in [0, that delay).
C4_SleepIsPolicyDelay ==
    (retryState = "Sleeping" /\ LastOutcome.retry_after = None)
        => LET d == PolicyDelay(backoff, Len(outcomes) - 1)
           IN  /\ IsSome(sleepDur)
               /\ Unwrap(sleepDur) >= d
               /\ Unwrap(sleepDur) <= (IF backoff.jitter THEN 2 * d - 1 ELSE d)

C4_Witness ==
    /\ retryState = "Sleeping"
    /\ Len(outcomes) = 2
    /\ LastOutcome.retry_after = None
    /\ ~backoff.jitter
    /\ sleepDur = Some(2)

\* C5: a rate-limit error reaches the caller only when the configured retries
\* are used up, and it is the error of the last attempt.
C5_RateLimitOnlyWhenExhausted ==
    (returned # <<>> /\ returned[1].kind = "RateLimit")
        => /\ IsSome(backoff.max_times)
           /\ attempts >= Unwrap(backoff.max_times) + 1
           /\ returned[1] = LastOutcome

C5_Witness ==
    /\ retryState = "Done"
    /\ returned # <<>> /\ returned[1].kind = "RateLimit"
    /\ Len(outcomes) >= 2

\* C6: at most one attempt is in flight, an attempt is in flight only in the
\* polling state and never during a sleep, and the caller gets one result,
\* which is the outcome of the last attempt.
C6_OneAttemptOneResult ==
    /\ inflight <= 1
    /\ attempts = Len(outcomes) + inflight
    /\ (inflight = 1) = (retryState = "Polling")
    /\ retryState = "Polling" => sleepDur = None
    /\ Len(returned) <= 1
    /\ (returned # <<>>) = (retryState = "Done")
    /\ returned # <<>> => returned[1] = LastOutcome

C6_Witness ==
    /\ retryState = "Done" /\ Len(outcomes) >= 3 /\ Len(returned) = 1
    /\ returned[1].kind = "Ok"

\* C7: in what the consumer has received, an error item is the last item.
C7_ErrorIsLast ==
    \A i \in 1..Len(consumed) : IsErr(consumed[i]) => i = Len(consumed)

\* C8: the consumed items are a prefix of the sent items, and while the
\* consumer is attached the sent items are the consumed ones followed by the
\* queued ones; every transport event contributes at most one item.
C8_ConsumedPrefixOfSent ==
    /\ Len(consumed) <= Len(sent)
    /\ consumed = SubSeq(sent, 1, Len(consumed))
    /\ rxAlive => sent = consumed \o chan
    /\ \A i, j \in 1..Len(sent) : i < j => sent[i].id < sent[j].id

C8_Witness ==
    /\ Len(consumed) >= 1 /\ Len(chan) >= 2

\* C9: at most one item is sent and not yet pulled.
C9_AtMostOneBuffered == Len(chan) <= 1

\* C10: once the consumer dropped the stream, the pump task eventually
\* closes the event source and ends.
C10_DropLeadsToPumpDone == (~rxAlive) ~> (pumpPc = "done")

\* The pump handles, in this step, the event it holds.
PumpHandles == pumpPc = "handle" /\ ev' # ev
Held == Unwrap(ev)
\* The pump leaves its loop in this step and closes the event source.
PumpLeaves ==
    /\ pumpPc' = "done" /\ esState' = "closed" /\ ~txAlive'
    /\ closeCalls' = closeCalls + 1
\* The item sent for an event is the last item sent and ended the pump.
Terminal(i) ==
    /\ i = Len(sent)
    /\ pumpPc = "done" /\ esState = "closed" /\ ~txAlive
    /\ ended => consumed = sent
DecodedStreamError == Outcome("StreamError", None, "decoded")
UnknownEventType == Outcome("StreamError", None, "unknown_event_type")
DeserializationError == Outcome("Deserialization", None, "")

\* C11: an "error" event whose data decodes makes the pump send exactly one
\* item, the decoded stream error, and leave its loop; the event source is
\* closed and stays closed (no reconnect), and the item is the last one.
C11_ErrorEventEndsStream ==
    /\ [][(PumpHandles /\ Held.type = "Message" /\ Held.name = "error"
           /\ Held.data = "valid" /\ rxAlive)
          => (/\ sent' = Append(sent, Item(Held.id, DecodedStreamError))
              /\ chan' = Append(chan, Item(Held.id, DecodedStreamError))
              /\ PumpLeaves)]_vars
    /\ [][esState = "closed" => esState' = "closed"]_vars
    /\ [](\A i \in 1..Len(sent) :
            (sent[i].kind = "StreamError" /\ sent[i].text = "decoded")
                => Terminal(i))

C11_Witness ==
    /\ ended /\ Len(consumed) = 1
    /\ consumed[1].kind = "StreamError" /\ consumed[1].text = "decoded"
    /\ esState = "closed" /\ closeCalls = 1

\* C12: an allow-listed event whose data does not decode makes the pump send
\* a Deserialization error after the items already sent, and leave its loop;
\* that error is the last item of the sequence.
C12_DecodeFailureEndsStream ==
    /\ [][(PumpHandles /\ Held.type = "Message" /\ Held.name \in event_types
           /\ Held.data = "malformed" /\ rxAlive)
          => (/\ sent' = Append(sent, Item(Held.id, DeserializationError))
              /\ chan' = Append(chan, Item(Held.id, DeserializationError))
              /\ consumed' = consumed
              /\ PumpLeaves)]_vars
    /\ [](\A i \in 1..Len(sent) :
            sent[i].kind = "Deserialization" => Terminal(i))

C12_Witness ==
    /\ ended /\ Len(consumed) = 2
    /\ consumed[1].kind = "Ok"
    /\ consumed[2].kind = "Deserialization"

\* C13: a message event whose name is not ping, not error and not in the
\* allow-list makes the pump send one unknown_event_type stream error,
\* whatever its data, and leave its loop.
C13_UnknownEventEndsStream ==
    /\ [][(PumpHandles /\ Held.type = "Message"
           /\ Held.name \notin ({"ping", "error"} \cup event_types) /\ rxAlive)
          => (/\ sent' = Append(sent, Item(Held.id, UnknownEventType))
              /\ PumpLeaves)]_vars
    /\ [](\A i \in 1..Len(sent) :
            (sent[i].kind = "StreamError" /\ sent[i].text = "unknown_event_type")
                => Terminal(i))

C13_Witness ==
    /\ ended /\ consumed # <<>>
    /\ consumed[Len(consumed)].text = "unknown_event_type"
    /\ closeCalls = 1

\* C14: on a clean end of stream the pump sends nothing, leaves its loop and
\* closes the event source; a finished pump has released the sender, so the
\* consumer's sequence ends after the items already queued.
C14_StreamEndedClosesQuietly ==
    /\ [][(PumpHandles /\ Held.type = "StreamEnded")
          => (sent' = sent /\ chan' = chan /\ PumpLeaves)]_vars
    /\ [](pumpPc = "done" => (~txAlive /\ esState = "closed"))

C14_Witness ==
    /\ ended /\ pumpPc = "done" /\ closeCalls = 1
    /\ IsSome(lastRetry)
    /\ Len(consumed) = 2 /\ \A i \in 1..2 : consumed[i].kind = "Ok"

\* C15: handling Open or a ping sends nothing and the pump goes on reading;
\* a stream that yielded only Open, pings and a clean close has sent nothing.
C15_OpenAndPingAreSilent ==
    /\ [][(PumpHandles
           /\ (Held.type = "Open" \/ (Held.type = "Message" /\ Held.name = "ping")))
          => (sent' = sent /\ chan' = chan /\ pumpPc' = "next"
              /\ esState' = esState)]_vars
    /\ [](nEvents = 0 => (sent = <<>> /\ consumed = <<>>))

C15_Witness ==
    /\ ended /\ consumed = <<>> /\ sent = <<>>
    /\ nEvents = 0 /\ IsSome(lastRetry) /\ closeCalls = 1

IsApplied(fn) == IsSome(result) /\ Unwrap(arg).fn = fn
Given == Unwrap(arg)
Got == Unwrap(result)

C17_DecodeFailureIsDeserialization ==
    (IsApplied("handle_response") /\ Given.resp.status = 200
     /\ Given.resp.body = "malformed")
        => Got.kind = "Deserialization"

\* The seconds each Retry-After value stands for, written out by hand.
ExpectedRetryAfter(h) ==
    CASE h = Some(<<"0">>) -> Some(0)
      [] h = Some(<<"5">>) -> Some(5)
      [] h = Some(<<"+", "7">>) -> Some(7)
      [] h = Some(<<"0", "0", "7">>) -> Some(7)
      [] h = Some(<<"1", "2", "0">>) -> Some(120)
      [] OTHER -> None

\* C18: for a 429 or 529 response the rate-limit error carries Some(n) when the
\* Retry-After header is present and parses as the integer n (as u64), and
\* None when it is absent, not text, or not such an integer.
C18_RetryAfterFromHeader ==
    (IsApplied("handle_response") /\ Given.resp.status \in {429, 529}
     /\ Given.resp.body # "unreadable")
        => /\ Got.kind = "RateLimit"
           /\ Got.retry_after = ExpectedRetryAfter(Given.resp.retry_after_header)

C18_Witness ==
    /\ IsApplied("handle_response") /\ Given.resp.status = 529
    /\ Given.resp.retry_after_header = Some(<<"1", "2", "0">>)
    /\ Got.retry_after = Some(120)

\* C19: an attempt whose send fails ends the call with that network error:
\* it is the last outcome, the caller gets it, and no sleep or further attempt
\* follows.
C19_SendFailureEndsCall ==
    \A i \in 1..Len(outcomes) :
        outcomes[i] = SendError
            => /\ i = Len(outcomes)
               /\ attempts = i
               /\ retryState = "Done"
               /\ sleepDur = None
               /\ returned = <<SendError>>

C19_Witness ==
    /\ IsCall /\ retryState = "Done" /\ attempts = 1
    /\ outcomes = <<SendError>> /\ returned = <<SendError>>

C21_DefaultReconnectUnbounded ==
    (IsApplied("retry") /\ backoff = Client_default
        /\ Given.error.type # "InvalidStatusCode")
        => IsSome(Got)

\* C21 (amended): the reconnect policy's retry limit is the backoff's
\* max_times, which Client::default leaves at 3: asked about a transport fault
\* or an ended stream it returns no delay exactly when max_times is Some(n) and
\* n retries were already made, and it is unbounded only with max_times = None.
C21_ReconnectBoundIsMaxTimes ==
    (IsApplied("retry") /\ Given.error.type # "InvalidStatusCode")
        => (Got = None
              <=> /\ IsSome(Given.last_retry)
                  /\ IsSome(backoff.max_times)
                  /\ Unwrap(Given.last_retry)[1] >= Unwrap(backoff.max_times))

C21_Witness ==
    /\ IsApplied("retry") /\ backoff = Client_default
    /\ Given.error.type = "Transport"
    /\ Given.last_retry = Some(<<3, 120>>)
    /\ Got = None


\* The number of rate-limit answers among the call's outcomes.
RateLimited ==
    Cardinality({i \in 1..Len(outcomes) : outcomes[i].kind = "RateLimit"})

\* C22: retry state is per call. Whatever another call on the same client does
\* in between, a get/post call's backoff counter is the number of its own
\* rate-limit answers (up to max_times), its sleep is the policy's delay for
\* its own retry index, a stream's reconnect delay is the policy's delay for
\* its own retry number, the other call's counter follows its own retries, and
\* no step changes the client's backoff configuration.
C22_RetryStatePerCall ==
    /\ [][backoff' = backoff]_vars
    /\ [](IsCall =>
            /\ boAttempts = (IF IsSome(backoff.max_times)
                             THEN Min(RateLimited, Unwrap(backoff.max_times))
                             ELSE RateLimited)
            /\ (retryState = "Sleeping" /\ LastOutcome.retry_after = None)
                  => LET d == PolicyDelay(backoff, Len(outcomes) - 1)
                     IN  Unwrap(sleepDur) - d \in Jitters(backoff, d))
    /\ []((op = "post_stream" /\ IsSome(lastRetry))
            => Unwrap(lastRetry)[2]
                 = PolicyDelay(backoff, Unwrap(lastRetry)[1] - 1))
    /\ [](peerCurrent = (IF peerAttempts = 0 THEN None
                         ELSE Some(PolicyDelay(backoff, peerAttempts - 1))))

C22_Witness ==
    /\ IsCall /\ retryState = "Sleeping"
    /\ peerAttempts = 2 /\ boAttempts = 1
    /\ LastOutcome.retry_after = None
    /\ sleepDur = Some(1)


\* The call starts, in this step, a sleep the backoff policy computed.
StartsPolicySleep ==
    /\ IsCall /\ sleepDur = None /\ IsSome(sleepDur')
    /\ outcomes'[Len(outcomes')].retry_after = None
\* The event source schedules, in this step, the reconnect after the one
\* lastRetry records.
SchedulesNextRetry ==
    /\ op = "post_stream" /\ IsSome(lastRetry) /\ IsSome(lastRetry')
    /\ Unwrap(lastRetry')[1] = Unwrap(lastRetry)[1] + 1

C24_InvalidBackoffNeverRuns ==
    (attempts > 0 \/ pumpPc = "handle")
        => (backoff.factor >= 1 /\ backoff.min_delay > 0)


\* C25: while the consumer is attached, every transport fault the pump handles
\* other than the clean end of the stream makes it send one error item: the
\* classified response for an invalid status or content type, the sse_error
\* stream error for any other fault.
C25_FaultsBecomeErrorItems ==
    [][(PumpHandles /\ rxAlive
          /\ Held.type \in {"InvalidStatusCode", "InvalidContentType", "Transport"})
        => /\ Len(sent') = Len(sent) + 1
           /\ IsErr(sent'[Len(sent')])
           /\ sent'[Len(sent')] =
                Item(Held.id, IF Held.type = "Transport"
                              THEN Outcome("StreamError", None, "sse_error")
                              ELSE handle_response(Held.resp))]_vars


\* C26: CreateMessagesResponse::messages returns, for a response with n content
\* blocks, n messages in the blocks' order, each with role Assistant and a
\* content list holding exactly that one block; no blocks give no messages.
C26_MessagesOnePerBlock ==
    IsApplied("messages")
        => /\ Len(Got) = Len(Given.content)
           /\ \A i \in 1..Len(Given.content) :
                /\ Got[i].role = "Assistant"
                /\ Len(Got[i].content) = 1
                /\ Got[i].content[1] = Given.content[i]
           /\ Given.content = <<>> => Got = <<>>

C26_Witness ==
    /\ IsApplied("messages")
    /\ Len(Given.content) = 3
    /\ Given.content[1] # Given.content[2]
    /\ Given.content[2].kind = "ToolUse"
    /\ Len(Got) = 3
    /\ Got[2] = Message("Assistant", <<Given.content[2]>>)


\* C27: converting a string s into a Message gives role User and a content
\* list of exactly one Text block with text s and no cache control;
\* Message::text returns the text of the first Text block of the message, and
\* None when the message has no Text block.
C27_FromStrAndText ==
    /\ IsApplied("from")
         => /\ Got.role = "User"
            /\ Len(Got.content) = 1
            /\ Got.content[1].kind = "Text"
            /\ Got.content[1].text = Given.s
            /\ Got.content[1].cache_control = None
    /\ IsApplied("text")
         => LET texts == {i \in 1..Len(Given.content) :
                             Given.content[i].kind = "Text"}
            IN  IF texts = {} THEN Got = None
                ELSE \E i \in texts :
                        /\ \A j \in texts : i <= j
                        /\ Got = Some(Given.content[i].text)

C27_Witness ==
    /\ IsApplied("text")
    /\ Len(Given.content) = 3
    /\ Given.content[1].kind = "ToolUse"
    /\ Given.content[2] = Text("b", Some("ephemeral"))
    /\ Given.content[3] = Text("a", None)
    /\ Got = Some("b")


\* C28: every Ok item the pump sends is the decoding of a message event whose
\* name is in the allow-list; handling anything else (Open, ping, an error
\* event, an unknown name, an invalid-status or invalid-content-type response,
\* a transport error) never sends an Ok item.
C28_OkOnlyFromAllowListedMessage ==
    [][(Len(sent') > Len(sent) /\ sent'[Len(sent')].kind = "Ok")
        => /\ PumpHandles
           /\ Held.type = "Message"
           /\ Held.name \in event_types
           /\ Held.data = "valid"]_vars


AtSendSite ==
    \/ Held.type = "Message" /\ Held.name # "ping"
    \/ Held.type \in {"InvalidStatusCode", "InvalidContentType"}
    \/ Held.type = "Transport"

\* C30: at each of the pump's three send sites (message result, classified
\* response error, sse_error), a send that fails because the consumer dropped
\* the stream makes the pump leave its loop and close the event source in that
\* step, nothing is queued, and the pump handles no transport event afterwards.
C30_FailedSendLeavesLoop ==
    /\ [][(PumpHandles /\ AtSendSite /\ ~rxAlive)
            => (PumpLeaves /\ sent' = sent /\ chan' = chan)]_vars
    /\ [][pumpPc = "done"
            => /\ pumpPc' = "done" /\ ev' = ev /\ nEvents' = nEvents
               /\ sent' = sent /\ esState' = "closed"
               /\ closeCalls' = closeCalls]_vars

C30_Witness ==
    /\ op = "post_stream" /\ ~rxAlive
    /\ nEvents = 1 /\ IsSome(lastRetry) /\ sent = <<>>
    /\ pumpPc = "done" /\ esState = "closed" /\ closeCalls = 1


\* C31: on every path by which the pump leaves its loop (clean end of stream,
\* event source exhausted, terminal error item sent, consumer dropped) it calls
\* event_source.close() exactly once and releases the sender in that step, so
\* an attached consumer that emptied the queue can observe the end; close() is
\* never called while the pump is still going to read, and the sender is held
\* until then.
C31_ExitClosesOnce ==
    /\ [][(pumpPc # "done" /\ pumpPc' = "done")
            => /\ closeCalls' = closeCalls + 1
               /\ esState' = "closed"
               /\ txAlive /\ ~txAlive']_vars
    /\ [](closeCalls = (IF pumpPc = "done" THEN 1 ELSE 0))
    /\ [](txAlive <=> pumpPc # "done")
    /\ [](pumpPc = "done" => esState = "closed")
    /\ []((pumpPc = "done" /\ rxAlive /\ chan = <<>> /\ ~ended)
            => ENABLED ObserveEnd)
    /\ [](ended => pumpPc = "done")

C31_Witness ==
    /\ op = "post_stream" /\ pumpPc = "done" /\ closeCalls = 1 /\ ~txAlive
    /\ rxAlive /\ ended
    /\ Len(sent) = 2 /\ IsErr(sent[2]) /\ consumed = sent


\* C32: items the pump sent before it terminated are not lost. While the
\* consumer holds the stream the sent items are the pulled ones followed by
\* the queued ones, the end is observed only after every sent item was pulled,
\* and once the pump has exited a consumer that keeps pulling (and does not
\* drop the stream) gets all of them, in order, and then the end.
C32_SentItemsDelivered ==
    /\ [](rxAlive => sent = consumed \o chan)
    /\ [](ended => (consumed = sent /\ chan = <<>> /\ pumpPc = "done"))
    /\ ((pumpPc = "done" /\ rxAlive)
          ~> (~rxAlive \/ (ended /\ consumed = sent)))

C32_Witness ==
    /\ op = "post_stream" /\ rxAlive /\ ended
    /\ Len(consumed) = 3 /\ consumed = sent
    /\ consumed[1].kind = "Ok" /\ consumed[1].id < consumed[2].id


\* The number of entries of that name in a header list.
Count(h, name) == Cardinality({i \in 1..Len(h) : h[i][1] = name})

\* C33: every request get, post and post_stream build carries x-api-key and
\* anthropic-version exactly once, and anthropic-beta exactly once when the
\* client has a beta value and not at all otherwise.
C33_HeadersExactlyOnce ==
    (IsSome(result) /\ Given.fn \in {"get", "post", "post_stream"})
        => /\ Count(Got, "x-api-key") = 1
           /\ Count(Got, "anthropic-version") = 1
           /\ Count(Got, "anthropic-beta") = (IF IsSome(Given.beta) THEN 1 ELSE 0)

====
